---- MODULE Spec2Model ----
(***************************************************************************)
(* SRGAN graph construction (Exp/SrGan.py) and the tensor primitives it    *)
(* uses (VSR/Util/Utility.py).                                             *)
(*                                                                         *)
(* The computation graph is data: a network is the sequence of layers the  *)
(* builder appended, a symbolic tensor is the set of variables it depends  *)
(* on, a train op is the set of variables its optimizer updates together   *)
(* with its control inputs.                                                *)
(***************************************************************************)
EXTENDS Integers, Sequences, FiniteSets, TLC

VARIABLES
  pc,          \* position of the driver: constructed, graph, compiled, running, error
  g_layers,    \* self.g_layers
  d_layers,    \* self.d_layers
  vgg_layer,   \* self.vgg_layer (after to_list)
  init,        \* self.init
  scale,       \* self.scale
  variables,   \* the graph's variable store (names of created weights)
  update_ops,  \* tf.GraphKeys.UPDATE_OPS collection
  gen,         \* layers of the 'Generative' network, in order
  adv,         \* layers of each _build_adversial invocation, in order of the calls
  outputs,     \* self.outputs
  reallogit,   \* the real-branch logit built by build_loss
  vgg_names,   \* layer names requested from the pretrained network <<label, sr>>
  loss,        \* self.loss: the registered train ops
  error,       \* the exception that ended construction, "none" if none
  applied,     \* train ops (positions in self.loss) executed in the current session run
  ran,         \* ops executed so far in the current session run
  changed,     \* variables assigned by a train op in the current session run
  version,     \* number of optimizer updates applied to each variable
  iter,        \* completed training iterations
  shift_in,    \* pixel_shift: the call's arguments
  shift_out,   \* pixel_shift: the returned tensor
  kernel_in,   \* guassian_kernel: requested kernel_size
  kernel_out   \* guassian_kernel: shape of the returned kernel

model_vars == <<pc, g_layers, d_layers, vgg_layer, init, scale, variables,
                update_ops, gen, adv, outputs, reallogit, vgg_names, loss, error>>
run_vars == <<ran, applied, changed, version, iter>>
shift_vars == <<shift_in, shift_out>>
kernel_vars == <<kernel_in, kernel_out>>
vars == <<model_vars, run_vars, shift_vars, kernel_vars>>

\* ---------------------------------------------------------------- bounds
MaxGLayers == 1
MaxDLayers == 6
MaxTrainDLayers == 4
MaxScale == 4
MaxVggIndex == 3
MaxIter == 2
MaxBatch == 2
MaxSide == 2
MaxFactor == 2
MaxChannel == 2
MaxKernel == 10

\* ------------------------------------------------------------- to_list
\* A Python value handed to to_list is a scalar or a list; generators,
\* tuples, sets, dicts and None do not occur in the modelled calls.
Scalar(v) == [scalar |-> v]
List(v) == [list |-> v]
IsList(x) == "list" \in DOMAIN x

to_list(x, repeat) == IF IsList(x) THEN x.list ELSE [i \in 1..repeat |-> x.scalar]

\* ------------------------------------------- tensors with contents
\* A concrete tensor is its shape and its elements in row-major order.
RECURSIVE Prod(_)
Prod(shape) == IF shape = <<>> THEN 1 ELSE Head(shape) * Prod(Tail(shape))

\* Multi-index (0-based, as a sequence) of the k-th element (0-based).
Unflat(k, shape) ==
  [i \in 1..Len(shape) |->
     (k \div Prod(SubSeq(shape, i + 1, Len(shape)))) % shape[i]]

RECURSIVE Offset(_, _)
\* Row-major offset (0-based) of a multi-index.
Offset(multi, shape) ==
  IF shape = <<>> THEN 0
  ELSE LET n == Len(shape)
       IN Offset(SubSeq(multi, 1, n - 1), SubSeq(shape, 1, n - 1)) * shape[n]
          + multi[n]

ErrTensor == [shape |-> <<>>, data |-> <<>>]

\* tf.reshape: the elements keep their row-major order; a dimension given
\* as -1 is inferred, and the element counts must agree.
Reshape(t, shape) ==
  LET known == Prod([i \in 1..Len(shape) |-> IF shape[i] = -1 THEN 1 ELSE shape[i]])
      total == Len(t.data)
      full  == [i \in 1..Len(shape) |->
                 IF shape[i] = -1 THEN total \div known ELSE shape[i]]
  IN IF known > 0 /\ Prod(full) = total
     THEN [shape |-> full, data |-> t.data]
     ELSE ErrTensor

\* tf.transpose: output axis i is input axis perm[i] (axes 0-based).
Transpose(t, perm) ==
  LET r      == Len(perm)
      oshape == [i \in 1..r |-> t.shape[perm[i] + 1]]
      src(m) == [j \in 1..r |-> m[CHOOSE i \in 1..r : perm[i] + 1 = j]]
  IN [shape |-> oshape,
      data  |-> [k \in 1..Len(t.data) |->
                   t.data[Offset(src(Unflat(k - 1, oshape)), t.shape) + 1]]]

\* Element of a tensor at a 0-based multi-index.
At(t, multi) == t.data[Offset(multi, t.shape) + 1]

ShiftPerm == <<0, 1, 3, 2, 4, 5>>

pixel_shift(image, scale_arg, channel) ==
  LET r  == to_list(scale_arg, 2)
      H  == image.shape[2]
      W  == image.shape[3]
      t1 == Reshape(image, <<-1, H, W>> \o r \o <<channel>>)
      t2 == Transpose(t1, ShiftPerm)
  IN Reshape(t2, <<-1, H * r[2], W * r[1], channel>>)

\* ------------------------------------------------ pixel_shift harness
\* Input tensor [N,H,W,C*r0*r1] filled with the sequential pattern 0,1,2,...
Sequential(shape) == [shape |-> shape, data |-> [k \in 1..Prod(shape) |-> k - 1]]

ScaleArgs == {Scalar(r) : r \in 1..MaxFactor}
             \cup {List(<<r0, r1>>) : r0 \in 1..MaxFactor, r1 \in 1..MaxFactor}

ShiftInputs ==
  {[image |-> Sequential(<<n, h, w, c * to_list(s, 2)[1] * to_list(s, 2)[2]>>),
    scale |-> s, channel |-> c] :
     n \in 1..MaxBatch, h \in 1..MaxSide, w \in 1..MaxSide,
     c \in 1..MaxChannel, s \in ScaleArgs}

NoTensor == [shape |-> <<-1>>, data |-> <<>>]

CallPixelShift ==
  /\ shift_out = NoTensor
  /\ shift_out' = pixel_shift(shift_in.image, shift_in.scale, shift_in.channel)
  /\ UNCHANGED <<shift_in, model_vars, run_vars, kernel_vars>>

InitShift ==
  /\ shift_in \in ShiftInputs
  /\ shift_out = NoTensor

\* ---------------------------------------------------- guassian_kernel
\* Length of one axis of np.mgrid[a:b].
MgridLen(a, b) == IF b > a THEN b - a ELSE 0

\* guassian_kernel with the grid's upper end left out (mgrid[-half:half]).
guassian_kernel_open(kernel_size_arg) ==
  LET ks0   == to_list(kernel_size_arg, 2)
      ks    == [i \in 1..2 |-> ks0[i] - (ks0[i] % 2)]
      half  == [i \in 1..2 |-> ks[i] \div 2]
  IN <<MgridLen(-half[1], half[1]), MgridLen(-half[2], half[2])>>

\* Shape of the kernel guassian_kernel returns (its values are real numbers
\* and are not modelled).
guassian_kernel(kernel_size_arg) ==
  LET ks0   == to_list(kernel_size_arg, 2)
      ks    == [i \in 1..2 |-> ks0[i] - (ks0[i] % 2)]
      half  == [i \in 1..2 |-> ks[i] \div 2]
  IN <<MgridLen(-half[1], half[1] + 1), MgridLen(-half[2], half[2] + 1)>>

KernelArgs == {Scalar(k) : k \in 1..MaxKernel}
              \cup {List(<<k0, k1>>) : k0 \in 1..MaxKernel, k1 \in 1..MaxKernel}

NoKernel == <<>>

CallGuassianKernel ==
  /\ kernel_out = NoKernel
  /\ kernel_out' = guassian_kernel(kernel_in)
  /\ UNCHANGED <<kernel_in, model_vars, run_vars, shift_vars>>

InitKernel ==
  /\ kernel_in \in KernelArgs
  /\ kernel_out = NoKernel

\* ------------------------------------------------- graph construction
\* The builder threads the graph under construction: the variable store,
\* the UPDATE_OPS collection, the per-scope counters that give unnamed
\* layers their default names, the layers appended to the current network,
\* and whether variable creation or lookup has raised.
RootScope == ""
AdvScope == "Adversarial"

ZeroCount == [conv2d |-> 0, batch_normalization |-> 0, dense |-> 0]

NewBuilder ==
  [vars |-> {}, upd |-> {}, cnt |-> [sc \in {RootScope, AdvScope} |-> ZeroCount],
   net |-> <<>>, err |-> FALSE]

\* tf.variable_scope(name, reuse=...): entering a scope restarts the default
\* layer names inside it.
EnterScope(b, sc) == [b EXCEPT !.cnt[sc] = ZeroCount]

VarName(sc, layer, idx) == [scope |-> sc, layer |-> layer, idx |-> idx]

\* Variable creation under a scope: with reuse every variable must exist
\* already, without reuse none may exist.
GetVariables(b, names, reuse) ==
  [b EXCEPT !.vars = @ \cup names,
            !.err  = @ \/ (IF reuse THEN ~(names \subseteq b.vars)
                                    ELSE names \cap b.vars # {})]

\* A normalization layer adds one running-statistics update op per call,
\* also when its variables are reused.
NewUpdateOp(b, bn) == [var |-> bn, call |-> Cardinality({u \in b.upd : u.var = bn})]

\* self.conv2d of the framework base class: a same-padded convolution layer,
\* optionally followed by batch normalization.
conv2d(b, sc, reuse, filters, kernel, strides, activation, use_batchnorm) ==
  LET c     == b.cnt[sc]
      kname == VarName(sc, "conv2d", c.conv2d)
      bname == VarName(sc, "batch_normalization", c.batch_normalization)
      names == {kname} \cup (IF use_batchnorm THEN {bname} ELSE {})
      b1    == GetVariables(b, names, reuse)
      layer == [op |-> "conv2d", filters |-> filters, kernel |-> kernel,
                strides |-> strides, activation |-> activation,
                use_batchnorm |-> use_batchnorm, vars |-> names]
  IN [b1 EXCEPT
        !.upd = IF use_batchnorm THEN @ \cup {NewUpdateOp(b, bname)} ELSE @,
        !.cnt[sc] = [c EXCEPT !.conv2d = @ + 1,
                              !.batch_normalization =
                                 IF use_batchnorm THEN @ + 1 ELSE @],
        !.net = Append(@, layer)]

\* tf.layers.dense: a projection of the last axis.
dense(b, sc, reuse, units, activation) ==
  LET c     == b.cnt[sc]
      name  == VarName(sc, "dense", c.dense)
      b1    == GetVariables(b, {name}, reuse)
      layer == [op |-> "dense", units |-> units, activation |-> activation,
                vars |-> {name}]
  IN [b1 EXCEPT !.cnt[sc] = [c EXCEPT !.dense = @ + 1],
                !.net = Append(@, layer)]

\* pixel_shift as a graph node: no variables.
shift(b, scale_arg, channel) ==
  [b EXCEPT !.net = Append(@, [op |-> "pixel_shift", scale |-> scale_arg,
                               channel |-> channel, vars |-> {}])]

GenFilters == 64
ExpandFilters == 256
ShallowKernel == 9
OutChannels == 1

RECURSIVE ResidualTower(_, _)
\* SrGan.py:36-40, the loop over range(self.g_layers).
ResidualTower(b, n) ==
  IF n = 0 THEN b
  ELSE LET b1 == conv2d(b, RootScope, FALSE, GenFilters, 3, 1, "relu", TRUE)
           b2 == conv2d(b1, RootScope, FALSE, GenFilters, 3, 1, "none", TRUE)
       IN ResidualTower(b2, n - 1)

\* The two-stage test with either factor 4 taken as enough.
TwoStageEither(sc) == sc[1] = 4 \/ sc[2] = 4

\* SrGan.py:44, the test selecting the two-stage path.
TwoStage(sc) == sc[1] = 4 /\ sc[2] = 4

\* SrGan.py:43-54, the channel expansion and the upsampling stage.
Upsample(b, sc) ==
  LET b0 == conv2d(b, RootScope, FALSE, ExpandFilters, 3, 1, "none", FALSE)
  IN IF TwoStage(sc)
     THEN LET b1 == conv2d(b0, RootScope, FALSE, 4, 3, 1, "relu", FALSE)
              b2 == shift(b1, Scalar(2), 1)
              b3 == conv2d(b2, RootScope, FALSE, ExpandFilters, 3, 1, "none", FALSE)
              b4 == conv2d(b3, RootScope, FALSE, 4, 3, 1, "relu", FALSE)
          IN shift(b4, Scalar(2), 1)
     ELSE LET b1 == conv2d(b0, RootScope, FALSE, sc[1] * sc[2], 3, 1, "relu", FALSE)
          IN shift(b1, List(sc), 1)

\* SrGan.py:32-56, the 'Generative' network.
Generative(b, glayers, sc) ==
  LET b1 == conv2d(b, RootScope, FALSE, GenFilters, ShallowKernel, 1, "relu", FALSE)
      b2 == ResidualTower(b1, glayers)
      b3 == conv2d(b2, RootScope, FALSE, GenFilters, 3, 1, "none", TRUE)
      b4 == Upsample(b3, sc)
  IN conv2d(b4, RootScope, FALSE, OutChannels, ShallowKernel, 1, "none", FALSE)

AdvFilters == 64
DenseUnits == 1024

\* The stride list written [2, 1] * (self.d_layers // 2).
StridesDownFirst(dlayers) ==
  [k \in 1..(2 * (dlayers \div 2)) |-> IF k % 2 = 1 THEN 2 ELSE 1]

\* SrGan.py:105, [1, 2] * (self.d_layers // 2); position k is index k - 1.
Strides(dlayers) == [k \in 1..(2 * (dlayers \div 2)) |-> IF k % 2 = 1 THEN 1 ELSE 2]

RECURSIVE AdvLoop(_, _, _, _, _)
\* SrGan.py:106-109, the loop over range(1, self.d_layers).
AdvLoop(b, reuse, i, filter, dlayers) ==
  IF i >= dlayers THEN b
  ELSE LET strides == Strides(dlayers)
           f       == filter * strides[(i - 1) + 1]
           b1      == conv2d(b, AdvScope, reuse, f, 3, strides[i + 1],
                             "leaky_relu", TRUE)
       IN AdvLoop(b1, reuse, i + 1, f, dlayers)

\* SrGan.py:100-113. The result carries the layers of this invocation and
\* whether the assertion on d_layers passed; the first convolution is
\* created before the assertion is evaluated.
_build_adversial(b, reuse, dlayers) ==
  LET b0 == EnterScope([b EXCEPT !.net = <<>>], AdvScope)
      b1 == conv2d(b0, AdvScope, reuse, AdvFilters, 3, 1, "leaky_relu", FALSE)
  IN IF dlayers % 2 # 0
     THEN [b |-> b1, asserted |-> FALSE]
     ELSE LET b2 == AdvLoop(b1, reuse, 1, AdvFilters, dlayers)
              b3 == dense(b2, AdvScope, reuse, DenseUnits, "leaky_relu")
              b4 == dense(b3, AdvScope, reuse, 1, "none")
          IN [b |-> b4, asserted |-> TRUE]

\* ------------------------------------------------------ symbolic tensors
\* A symbolic tensor is the placeholder it is computed from and the layers
\* applied to it; it depends on the variables those layers read.
Tensor(src, net) == [src |-> src, net |-> net]
NoSymbol == Tensor("none", <<>>)

Deps(t) == UNION {t.net[i].vars : i \in 1..Len(t.net)}
DepsOfAll(ts) == UNION {Deps(t) : t \in ts}

\* ------------------------------------------------------------------ Vgg
VggVar == VarName("VGG", "vgg19", 0)

\* Convolution layers of the VGG19 the constructor loads (Utility.py:172-174):
\* blocks 1 and 2 hold two, blocks 3 to 5 hold four.
Vgg19Layers ==
  {[block |-> b, conv |-> c] : b \in 1..5, c \in 1..4} \
  {[block |-> b, conv |-> c] : b \in 1..2, c \in 3..4}

\* Utility.py:181-208, with one (block, conv) pair: the layer named
\* block{b}_conv{c} of the pretrained network, applied to x.
VggCall(x, conv_arg, block_arg) ==
  LET block == to_list(block_arg, 1)
      conv  == to_list(conv_arg, 1)
      layer_name == [block |-> block[1], conv |-> conv[1]]
  IN [found |-> layer_name \in Vgg19Layers,
      out   |-> Tensor(x.src, Append(x.net, [op |-> "vgg", name |-> layer_name,
                                              vars |-> {VggVar}]))]

\* SrGan.py:67-68, self.vgg(x, self.vgg_layer[0], self.vgg_layer[1]).
Perceptual(x, vl) == VggCall(x, Scalar(vl[1]), Scalar(vl[2]))

\* ----------------------------------------------------------------- losses
\* A loss is the set of symbolic tensors it is computed from.
Mse(outs) == {outs[1]}
GanLoss(outs) == {outs[2]}
VggLoss(vgg_label, vgg_sr) == {vgg_label, vgg_sr}

\* SrGan.py:70
GenerativeLoss(outs, vgg_label, vgg_sr) ==
  Mse(outs) \cup GanLoss(outs) \cup VggLoss(vgg_label, vgg_sr)

\* SrGan.py:71
GInitLoss(outs) == Mse(outs)

\* SrGan.py:74-75
DiscriminatorLoss(outs, real) == {real, outs[2]}

\* tf.train.AdamOptimizer.minimize(loss) with no var_list: the step updates
\* every trainable variable the loss depends on; created under
\* tf.control_dependencies(ctrl) it waits for the ops in ctrl.
Minimize(name, lossTensors, trainable, ctrl) ==
  [name |-> name, vars |-> trainable \cap DepsOfAll(lossTensors), ctrl |-> ctrl]

\* The real-branch invocation without reuse.
RealBranchNoReuse == FALSE

\* SrGan.py:73, the reuse argument of the real-branch invocation.
RealBranchReuse == TRUE

\* The collection read before the real branch is built.
ControlInputsEarly(updBeforeRealBranch, updAfterRealBranch) == updBeforeRealBranch

\* SrGan.py:76-77, the ops every optimizer step is made to wait for: the
\* UPDATE_OPS collection as it is once both discriminator branches exist.
ControlInputs(updBeforeRealBranch, updAfterRealBranch) == updAfterRealBranch

\* The mode test inverted.
RegisterStepsInverted(mode, outs, real, vgg_label, vgg_sr, trainable, ctrl) ==
  IF ~mode
  THEN <<Minimize("g", GInitLoss(outs), trainable, ctrl)>>
  ELSE <<Minimize("g", GenerativeLoss(outs, vgg_label, vgg_sr), trainable, ctrl),
         Minimize("d", DiscriminatorLoss(outs, real), trainable, ctrl)>>

\* SrGan.py:80-84
RegisterSteps(mode, outs, real, vgg_label, vgg_sr, trainable, ctrl) ==
  IF mode
  THEN <<Minimize("g", GInitLoss(outs), trainable, ctrl)>>
  ELSE <<Minimize("g", GenerativeLoss(outs, vgg_label, vgg_sr), trainable, ctrl),
         Minimize("d", DiscriminatorLoss(outs, real), trainable, ctrl)>>

\* ---------------------------------------------------------- construction
GLayerArgs == 0..MaxGLayers
DLayerArgs == 1..MaxDLayers
TrainDLayerArgs == 1..MaxTrainDLayers
ModelScales == (1..MaxScale) \X (1..MaxScale)
VggArgs == {Scalar(x) : x \in 1..MaxVggIndex}
           \cup {List(<<b, c>>) : b \in 1..MaxVggIndex, c \in 1..MaxVggIndex}

\* SrGan.py:20-27: the state after SRGAN(...).
Constructed(gl, dl, vl, mode, sc) ==
  /\ pc = "constructed"
  /\ g_layers = gl
  /\ d_layers = dl
  /\ vgg_layer = to_list(vl, 2)
  /\ init = mode
  /\ scale = sc
  /\ variables = {VggVar}
  /\ update_ops = {}
  /\ gen = <<>>
  /\ adv = <<>>
  /\ outputs = <<>>
  /\ reallogit = NoSymbol
  /\ vgg_names = <<>>
  /\ loss = <<>>
  /\ error = "none"

Idle ==
  /\ ran = {}
  /\ applied = {}
  /\ changed = {}
  /\ version = [v \in {} |-> 0]
  /\ iter = 0

Builder == [NewBuilder EXCEPT !.vars = variables, !.upd = update_ops]

\* SrGan.py:29-58
build_graph ==
  /\ pc = "constructed"
  /\ LET b1 == Generative(Builder, g_layers, scale)
         r  == _build_adversial(b1, FALSE, d_layers)
         sr == Tensor("inputs", b1.net)
     IN /\ gen' = b1.net
        /\ variables' = r.b.vars
        /\ update_ops' = r.b.upd
        /\ IF ~r.asserted
           THEN /\ outputs' = <<sr>>
                /\ adv' = adv
                /\ error' = "AssertionError"
                /\ pc' = "error"
           ELSE /\ outputs' = <<sr, Tensor("inputs", b1.net \o r.b.net)>>
                /\ adv' = <<r.b.net>>
                /\ error' = IF r.b.err THEN "ValueError: variable" ELSE "none"
                /\ pc' = IF r.b.err THEN "error" ELSE "graph"
  /\ UNCHANGED <<g_layers, d_layers, vgg_layer, init, scale, reallogit,
                 vgg_names, loss, run_vars, shift_vars, kernel_vars>>

\* SrGan.py:60-90
build_loss ==
  /\ pc = "graph"
  /\ LET y_true    == Tensor("label", <<>>)
         vgg_label == Perceptual(y_true, vgg_layer)
         vgg_sr    == Perceptual(outputs[1], vgg_layer)
         r         == _build_adversial(Builder, RealBranchReuse, d_layers)
         ctrl      == ControlInputs(update_ops, r.b.upd)
     IN IF ~vgg_label.found \/ ~vgg_sr.found
        THEN /\ error' = "ValueError: get_layer"
             /\ pc' = "error"
             /\ UNCHANGED <<variables, update_ops, adv, reallogit, vgg_names, loss>>
        ELSE /\ vgg_names' = <<vgg_label.out.net[Len(vgg_label.out.net)].name,
                               vgg_sr.out.net[Len(vgg_sr.out.net)].name>>
             /\ variables' = r.b.vars
             /\ update_ops' = r.b.upd
             /\ adv' = Append(adv, r.b.net)
             /\ reallogit' = Tensor("label", r.b.net)
             /\ IF r.b.err
                THEN /\ error' = "ValueError: variable"
                     /\ pc' = "error"
                     /\ loss' = loss
                ELSE /\ error' = error
                     /\ pc' = "compiled"
                     /\ loss' = RegisterSteps(init, outputs, Tensor("label", r.b.net),
                                              vgg_label.out, vgg_sr.out,
                                              r.b.vars, ctrl)
  /\ UNCHANGED <<g_layers, d_layers, vgg_layer, init, scale, gen, outputs,
                 run_vars, shift_vars, kernel_vars>>

\* ---------------------------------------------------------- session runs
\* One training iteration is one session run fetching every op of self.loss.
\* The executor runs an op once all its control inputs have run, in any
\* order otherwise.
Needed == UNION {loss[k].ctrl : k \in 1..Len(loss)}

StartRun ==
  /\ pc = "compiled"
  /\ iter < MaxIter
  /\ pc' = "running"
  /\ ran' = {}
  /\ applied' = {}
  /\ changed' = {}
  /\ version' = IF iter = 0 THEN [v \in variables |-> 0] ELSE version
  /\ UNCHANGED <<g_layers, d_layers, vgg_layer, init, scale, variables,
                 update_ops, gen, adv, outputs, reallogit, vgg_names, loss,
                 error, iter, shift_vars, kernel_vars>>

RunUpdateOp ==
  /\ pc = "running"
  /\ \E u \in Needed \ ran : ran' = ran \cup {u}
  /\ UNCHANGED <<model_vars, applied, changed, version, iter, shift_vars, kernel_vars>>

RunTrainOp ==
  /\ pc = "running"
  /\ \E k \in (1..Len(loss)) \ applied :
       /\ loss[k].ctrl \subseteq ran
       /\ applied' = applied \cup {k}
       /\ changed' = changed \cup loss[k].vars
       /\ version' = [v \in DOMAIN version |->
                        IF v \in loss[k].vars THEN version[v] + 1 ELSE version[v]]
  /\ UNCHANGED <<model_vars, ran, iter, shift_vars, kernel_vars>>

EndRun ==
  /\ pc = "running"
  /\ applied = 1..Len(loss)
  /\ pc' = "compiled"
  /\ iter' = iter + 1
  /\ UNCHANGED <<g_layers, d_layers, vgg_layer, init, scale, variables,
                 update_ops, gen, adv, outputs, reallogit, vgg_names, loss,
                 error, ran, applied, changed, version, shift_vars, kernel_vars>>

\* ---------------------------------------------------------- specifications
NoShift == shift_in = [image |-> NoTensor, scale |-> Scalar(1), channel |-> 1]
           /\ shift_out = NoTensor
NoKernelCall == kernel_in = Scalar(1) /\ kernel_out = NoKernel
NoModel == Constructed(0, 2, Scalar(2), TRUE, <<4, 4>>) /\ Idle

\* Construction of a model with any configuration.
Init ==
  /\ \E gl \in GLayerArgs, dl \in DLayerArgs, vl \in VggArgs,
        mode \in BOOLEAN, sc \in ModelScales : Constructed(gl, dl, vl, mode, sc)
  /\ Idle
  /\ NoShift
  /\ NoKernelCall

Next == build_graph \/ build_loss

Spec == Init /\ [][Next]_vars

\* Construction and training with the scale and perceptual layer of the
\* script (SrGan.py:127, 132).
InitTrain ==
  /\ \E gl \in GLayerArgs, dl \in TrainDLayerArgs, mode \in BOOLEAN :
        Constructed(gl, dl, List(<<2, 2>>), mode, <<4, 4>>)
  /\ Idle
  /\ NoShift
  /\ NoKernelCall

NextTrain ==
  \/ build_graph
  \/ build_loss
  \/ StartRun
  \/ RunUpdateOp
  \/ RunTrainOp
  \/ EndRun

SpecTrain == InitTrain /\ [][NextTrain]_vars

InitShiftOnly == InitShift /\ NoModel /\ NoKernelCall
NextShift == CallPixelShift
SpecShift == InitShiftOnly /\ [][NextShift]_vars

InitKernelOnly == InitKernel /\ NoModel /\ NoShift
NextKernel == CallGuassianKernel
SpecKernel == InitKernelOnly /\ [][NextKernel]_vars

\* ------------------------------------------------------------- shapes
CeilDiv(a, b) == (a + b - 1) \div b

\* Output shape of the framework's same-padded convolution.
ConvShape(layer, sh) ==
  <<sh[1], CeilDiv(sh[2], layer.strides), CeilDiv(sh[3], layer.strides), layer.filters>>

\* tf.layers.dense (SrGan.py:111-112) projects the last axis and keeps the others.
DenseShape(layer, sh) == [sh EXCEPT ![Len(sh)] = layer.units]

LayerShape(layer, sh) ==
  CASE layer.op = "conv2d" -> ConvShape(layer, sh)
    [] layer.op = "dense" -> DenseShape(layer, sh)
    [] layer.op = "pixel_shift" ->
         pixel_shift(Sequential(sh), layer.scale, layer.channel).shape
    [] OTHER -> sh

RECURSIVE ShapeOf(_, _)
\* Shape of the output of a network fed a tensor of shape sh.
ShapeOf(net, sh) ==
  IF net = <<>> THEN sh ELSE ShapeOf(Tail(net), LayerShape(Head(net), sh))

\* ------------------------------------------------------------ properties
NetVars(net) == UNION {net[i].vars : i \in 1..Len(net)}
GenVars == NetVars(gen)
AdvVars == {v \in variables : v.scope = AdvScope}

\* C1: in adversarial mode the step built from the generator loss changes no
\* discriminator weight and the step built from the discriminator loss changes
\* no generator weight, in every training iteration.
C1_DisjointSteps ==
  (pc = "running" /\ ~init) =>
     \A k \in applied :
        /\ loss[k].name = "g" => loss[k].vars \cap AdvVars = {}
        /\ loss[k].name = "d" => loss[k].vars \cap GenVars = {}

\* State part of C2: a model built with init=True registers exactly one optimizer step and
\* no step ever changes a discriminator parameter; a model built with
\* init=False registers two steps and every completed training iteration has
\* changed generator and discriminator parameters; once the loss is built
\* neither the mode nor the registered steps change.
C2_ModeState ==
  pc \in {"compiled", "running"} =>
     /\ init => /\ Len(loss) = 1
                /\ changed \cap AdvVars = {}
                /\ \A v \in AdvVars \cap DOMAIN version : version[v] = 0
     /\ ~init => /\ Len(loss) = 2
                 /\ (pc = "running" /\ applied = 1..Len(loss)) =>
                       /\ changed \cap GenVars # {}
                       /\ changed \cap AdvVars # {}
                 /\ iter > 0 => /\ \E v \in GenVars : version[v] >= iter
                                /\ \E v \in AdvVars : version[v] >= iter

C2_ModeFixed ==
  (pc \in {"compiled", "running"}) => (init' = init /\ loss' = loss)

\* C2: mode exclusivity over any sequence of training steps: the state part
\* (steps registered and parameters changed per mode) always holds, and no
\* step changes the mode or the registered steps once the loss is built.
C2_ModeExclusivity == [] C2_ModeState /\ [][C2_ModeFixed]_vars

C2_Witness ==
  /\ ~init
  /\ pc = "running"
  /\ applied = {1, 2}
  /\ iter = 1

\* C3: after build_graph and build_loss exactly one set of discriminator
\* weights exists; the real-branch invocation raises no variable error,
\* creates no weight and reads exactly the weights the fake-branch invocation
\* created, through the same layers, so both branches compute the same
\* function of their input.
C3_WeightSharing ==
  /\ error # "ValueError: variable"
  /\ pc = "compiled" =>
       /\ Len(adv) = 2
       /\ adv[2] = adv[1]
       /\ AdvVars = NetVars(adv[1])
       /\ variables = {VggVar} \cup GenVars \cup NetVars(adv[1])
       /\ Deps(reallogit) = AdvVars
       /\ Deps(outputs[2]) = GenVars \cup AdvVars

C3_Witness ==
  /\ pc = "compiled"
  /\ d_layers = 4
  /\ Len(adv) = 2
  /\ Cardinality(NetVars(adv[2])) > 2

\* C4: pixel_shift returns shape [N,H*r1,W*r0,C] with
\* output[n, h*r1 + a, w*r0 + b, c] = input[n, h, w, (a*r0 + b)*C + c] for all
\* 0 <= a < r1, 0 <= b < r0, also when r0 # r1, and every input element
\* appears exactly once in the output.
C4_ShiftMapping ==
  shift_out # NoTensor =>
    LET r  == to_list(shift_in.scale, 2)
        im == shift_in.image
        N  == im.shape[1]
        H  == im.shape[2]
        W  == im.shape[3]
        C  == shift_in.channel
    IN /\ shift_out.shape = <<N, H * r[2], W * r[1], C>>
       /\ \A n \in 0..(N - 1), h \in 0..(H - 1), w \in 0..(W - 1),
             a \in 0..(r[2] - 1), b \in 0..(r[1] - 1), c \in 0..(C - 1) :
             At(shift_out, <<n, h * r[2] + a, w * r[1] + b, c>>)
               = At(im, <<n, h, w, (a * r[1] + b) * C + c>>)
       /\ \A v \in 0..(Len(im.data) - 1) :
             Cardinality({k \in 1..Len(shift_out.data) : shift_out.data[k] = v}) = 1

\* The convolutions of a discriminator invocation after the initial one.
AdvConvs(net) == SubSeq(net, 2, Len(net) - 2)

\* C5 as stated: the dlayers - 1 convolutions after the initial one have
\* strides 1,2,1,2,... and the channel count doubles exactly on each
\* stride-2 convolution.
C5_StrideSchedule ==
  (Len(adv) >= 1 /\ d_layers >= 2) =>
    LET cs == AdvConvs(adv[1])
    IN /\ Len(cs) = d_layers - 1
       /\ adv[1][1].filters = 64 /\ adv[1][1].strides = 1
       /\ \A j \in 1..Len(cs) :
            LET prev == IF j = 1 THEN adv[1][1].filters ELSE cs[j - 1].filters
            IN /\ cs[j].strides = (IF j % 2 = 1 THEN 1 ELSE 2)
               /\ cs[j].filters = (IF cs[j].strides = 2 THEN 2 * prev ELSE prev)

\* C5 amended: the dlayers - 1 convolutions after the initial 64-channel
\* stride-1 convolution have strides 2,1,2,1,..., the channel count doubles
\* exactly on each stride-1 convolution among them and is unchanged on each
\* stride-2 convolution, so it is non-decreasing.
C5_StrideScheduleAmended ==
  (Len(adv) >= 1 /\ d_layers >= 2) =>
    LET cs == AdvConvs(adv[1])
    IN /\ Len(cs) = d_layers - 1
       /\ adv[1][1].filters = 64 /\ adv[1][1].strides = 1
       /\ \A j \in 1..Len(cs) :
            LET prev == IF j = 1 THEN adv[1][1].filters ELSE cs[j - 1].filters
            IN /\ cs[j].op = "conv2d"
               /\ cs[j].strides = (IF j % 2 = 1 THEN 2 ELSE 1)
               /\ cs[j].filters = (IF cs[j].strides = 1 THEN 2 * prev ELSE prev)
               /\ cs[j].filters >= prev

C5_Witness ==
  /\ pc = "graph"
  /\ d_layers = 6
  /\ Len(AdvConvs(adv[1])) = 5
  /\ adv[1][6].filters = 256

ShiftLayers == {i \in 1..Len(gen) : gen[i].op = "pixel_shift"}
ShiftFactors(i) == to_list(gen[i].scale, 2)

\* C6: the generator takes the two-stage path (two shifts by 2, each fed by
\* a 4-channel convolution) exactly when scale[0] = 4 and scale[1] = 4, and
\* otherwise one shift by scale fed by a convolution of scale[0]*scale[1]
\* channels; every pixel_shift is fed channel*r0*r1 channels.
C6_ScaleDispatch ==
  pc # "constructed" =>
    /\ scale = <<4, 4>> =>
         /\ Cardinality(ShiftLayers) = 2
         /\ \A i \in ShiftLayers :
              /\ ShiftFactors(i) = <<2, 2>>
              /\ gen[i - 1].op = "conv2d" /\ gen[i - 1].filters = 4
    /\ scale # <<4, 4>> =>
         /\ Cardinality(ShiftLayers) = 1
         /\ \A i \in ShiftLayers :
              /\ ShiftFactors(i) = scale
              /\ gen[i - 1].op = "conv2d"
              /\ gen[i - 1].filters = scale[1] * scale[2]
    /\ \A i \in ShiftLayers :
         gen[i - 1].filters = gen[i].channel * ShiftFactors(i)[1] * ShiftFactors(i)[2]

C6_Witness ==
  /\ pc = "graph"
  /\ scale = <<4, 4>>
  /\ Cardinality(ShiftLayers) = 2

\* C7: with vgg_layer = [b, c] the perceptual loss compares the activation
\* named block{b}_conv{c} for the ground truth with the same-named activation
\* for the generator output.
C7_PerceptualLayer ==
  pc = "compiled" =>
    vgg_names = <<[block |-> vgg_layer[1], conv |-> vgg_layer[2]],
                  [block |-> vgg_layer[1], conv |-> vgg_layer[2]]>>

FeedShapes == {<<n, h, w, 1>> : n \in 1..MaxBatch, h \in 1..MaxSide, w \in 1..MaxSide}

\* C8: for every batch of N images the discriminator's logit has shape [N,1].
C8_LogitShape ==
  pc = "compiled" =>
    \A sh \in FeedShapes :
       /\ ShapeOf(reallogit.net, sh) = <<sh[1], 1>>
       /\ ShapeOf(adv[1], sh) = <<sh[1], 1>>

\* C9: every registered optimizer step has all update ops collected in the
\* graph, those of both discriminator invocations included, as control
\* inputs, and in no session run is a step applied before all of them ran.
C9_UpdateBeforeStep ==
  pc \in {"compiled", "running"} =>
    /\ \A k \in 1..Len(loss) : loss[k].ctrl = update_ops
    /\ \A bn \in {v \in variables : v.layer = "batch_normalization"
                                     /\ v.scope = AdvScope} :
         {[var |-> bn, call |-> 0], [var |-> bn, call |-> 1]} \subseteq update_ops
    /\ (pc = "running" /\ applied # {}) => update_ops \subseteq ran

C9_Witness ==
  /\ pc = "running"
  /\ applied # {}
  /\ \E u \in ran : u.var.scope = AdvScope /\ u.call = 1
  /\ \E u \in ran : u.var.scope = RootScope

\* C10 as stated: the kernel's side on each axis is the largest odd integer
\* not exceeding the requested size.
C10_KernelClip ==
  kernel_out # NoKernel =>
    \A i \in 1..2 :
      LET k == to_list(kernel_in, 2)[i]
      IN kernel_out[i] = (IF k % 2 = 1 THEN k ELSE k - 1)

\* C10 amended: the kernel's side on each axis is the smallest odd integer
\* not below the requested size: an odd k is kept, an even k gives k + 1.
C10_KernelOddAbove ==
  kernel_out # NoKernel =>
    \A i \in 1..2 :
      LET k == to_list(kernel_in, 2)[i]
      IN /\ kernel_out[i] = (IF k % 2 = 1 THEN k ELSE k + 1)
         /\ kernel_out[i] % 2 = 1
         /\ kernel_out[i] >= k

C10_Witness ==
  /\ kernel_out # NoKernel
  /\ to_list(kernel_in, 2)[1] % 2 = 0
  /\ to_list(kernel_in, 2)[2] % 2 = 1

====
